---- MODULE Spec2Model ----
(***************************************************************************)
(* Real-time task orchestration and broadcast subsystem of                 *)
(* rehui-car-adviser: ConnectionManager (connection registry and the two   *)
(* subscription indices), RealtimeBroadcaster (queue and consumer loop),   *)
(* MessageHandler (inbound frames), the /ws endpoint read loop and         *)
(* RealtimeService (task table and the search pipeline).                   *)
(*                                                                         *)
(* Everything runs on one asyncio event loop, so an action is the code     *)
(* between two suspension points (an await that really yields: a socket    *)
(* accept/receive/send, asyncio.sleep, a stage call, wait_for on the       *)
(* queue).  Queue.put on the unbounded asyncio.Queue never yields.         *)
(***************************************************************************)
EXTENDS Integers, Sequences, FiniteSets, TLC

\* ------------------------------------------------------------- bounds
NumClients == 2      \* distinct client_id values in use
NumSockets == 2      \* WebSocket objects alive at the same time
NumTasks == 1        \* task ids uuid4 can hand out in one run
NumConsumers == 2    \* _broadcast_worker coroutines alive at the same time
NumWorkers == 2      \* _execute_realtime_search coroutines created in one run
MaxQueue == 20       \* envelopes waiting in broadcast_queue
MaxTime == 1         \* clock ticks
MaxAge == 0          \* largest max_age_hours passed to cleanup
MaxCancels == 1      \* successful cancel_task calls per task
MaxSkew == 2         \* deficit of connects over disconnects still counted
MaxNotices == 1      \* system notifications waiting in broadcast_queue
MaxProduced == 3     \* envelopes put on the queue by direct broadcast_* calls

ClientIds == 1..NumClients
Sockets == 1..NumSockets
TaskIds == 1..NumTasks
Consumers == 1..NumConsumers
Workers == 1..NumWorkers
Times == 0..MaxTime

\* ids an inbound frame can name: the task ids and one id that no task has
ForeignId == NumTasks + 1
FrameIds == TaskIds \cup {ForeignId}

NoTime == -1         \* a timestamp key that is absent from the task row
NoTask == 0          \* no task id / no client id (Python None)
NoPct == -1

\* ------------------------------------------------------------- state
VARIABLES
    active_connections,    \* ConnectionManager: client_id -> WebSocket
    connection_info,       \* ConnectionManager: client_id -> [is_active]
    task_subscriptions,    \* ConnectionManager: task_id -> set of client_id
    session_subscriptions, \* ConnectionManager: session_id -> set of client_id
    sock,                  \* per WebSocket: the endpoint coroutine serving it
    is_running,            \* RealtimeBroadcaster.is_running
    broadcast_queue,       \* RealtimeBroadcaster.broadcast_queue
    consumer,              \* the _broadcast_worker coroutines
    active_tasks,          \* RealtimeService.active_tasks: task_id -> row
    worker,                \* the _execute_realtime_search coroutines
    now,                   \* datetime.now()
    issued,                \* task ids uuid4 has already returned
    sent,                  \* history: per task, the envelopes enqueued for it
    seen,                  \* history: per client and task, what the client got
    cancel_requested,      \* history: per id, cancel_task calls that returned True
    skew,                  \* history: connect calls minus disconnect calls
    net,                   \* history: the same, counting only calls that
                           \*   added an id to / removed an id from the live set
    last_op,               \* history: the registry call the last step made
    last_call,             \* history: the RealtimeService call the last step made
    last_frame             \* history: the inbound frame the last step handled

regVars == <<active_connections, connection_info, task_subscriptions,
             session_subscriptions>>
vars == <<active_connections, connection_info, task_subscriptions,
          session_subscriptions, sock, is_running, broadcast_queue, consumer,
          active_tasks, worker, now, issued, sent, seen, cancel_requested,
          skew, net, last_op, last_call, last_frame>>

\* ------------------------------------------------------------- dicts
Put(f, k, v) == [x \in (DOMAIN f) \cup {k} |-> IF x = k THEN v ELSE f[x]]
Del(f, k) == [x \in (DOMAIN f) \ {k} |-> f[x]]
EmptyDict == [x \in {} |-> 0]
Min(S) == CHOOSE x \in S : \A y \in S : x <= y

\* ------------------------------------------------------------- registry
\* The four maps of ConnectionManager as one value, so that the methods
\* below are functions from registry to registry.
Reg == [ac |-> active_connections, ci |-> connection_info,
        ts |-> task_subscriptions, ss |-> session_subscriptions]

SetReg(r) ==
    /\ active_connections' = r.ac
    /\ connection_info' = r.ci
    /\ task_subscriptions' = r.ts
    /\ session_subscriptions' = r.ss

\* set.discard(client_id) on every entry, then del of the entries left empty
DiscardFrom(subs, c) ==
    LET keep == {k \in DOMAIN subs : subs[k] \ {c} # {}}
    IN  [k \in keep |-> subs[k] \ {c}]

\* the same sweep over the task index only
cleanup_task_index_only(r, c) == [r EXCEPT !.ts = DiscardFrom(r.ts, c)]

cleanup_subscriptions(r, c) ==
    [r EXCEPT !.ts = DiscardFrom(r.ts, c), !.ss = DiscardFrom(r.ss, c)]

\* the same update written so that it stores a record for an unknown id
mark_inactive_creates_record(ci, c) == Put(ci, c, [is_active |-> FALSE])

mark_inactive(ci, c) ==
    IF c \in DOMAIN ci THEN [ci EXCEPT ![c].is_active = FALSE] ELSE ci

\* disconnect without the `del self.active_connections[client_id]`
disconnect_keeps_socket(r, c) ==
    cleanup_subscriptions([r EXCEPT !.ci = mark_inactive(r.ci, c)], c)

disconnect(r, c) ==
    cleanup_subscriptions(
        [r EXCEPT !.ac = Del(r.ac, c), !.ci = mark_inactive(r.ci, c)], c)

\* the same part without the WebSocketConnectionInfo store
register_without_record(r, c, s) == [r EXCEPT !.ac = Put(r.ac, c, s)]

\* connect(), the part after websocket.accept() has returned
register(r, c, s) ==
    [r EXCEPT !.ac = Put(r.ac, c, s),
              !.ci = Put(r.ci, c, [is_active |-> TRUE])]

\* connect written with the two stores ahead of `await websocket.accept()`
connect_stores_before_accept(r, c, s, accepted) ==
    [reg |-> register(r, c, s), raised |-> ~accepted]

\* connect(websocket, client_id, ...) up to its first suspension after
\* accept(): the registry, and whether connect re-raised.  `accepted` is
\* whether websocket.accept() returned.
connect(r, c, s, accepted) ==
    [reg |-> (IF accepted THEN register(r, c, s) ELSE r), raised |-> ~accepted]

subscribe(subs, c, k) ==
    Put(subs, k, (IF k \in DOMAIN subs THEN subs[k] ELSE {}) \cup {c})

unsubscribe(subs, c, k) ==
    IF k \notin DOMAIN subs THEN subs
    ELSE IF subs[k] \ {c} = {} THEN Del(subs, k)
    ELSE [subs EXCEPT ![k] = subs[k] \ {c}]

subscribe_to_task(r, c, t) == [r EXCEPT !.ts = subscribe(r.ts, c, t)]
unsubscribe_from_task(r, c, t) == [r EXCEPT !.ts = unsubscribe(r.ts, c, t)]
subscribe_to_session(r, c, x) == [r EXCEPT !.ss = subscribe(r.ss, c, x)]

get_active_connections_count == Cardinality(DOMAIN active_connections)

\* What websocket.send_text can do on socket s: it succeeds while the peer
\* is there; once the peer is gone the write fails, with WebSocketDisconnect
\* or with another exception depending on the ASGI server underneath.
WriteOutcomes(s) ==
    IF sock[s].peer = "up" THEN {"ok"} ELSE {"disconnect", "error"}

\* send_message after websocket.send_text has ended in `outcome`: only
\* `except WebSocketDisconnect` calls disconnect, `except Exception` logs
write_done(r, c, outcome) ==
    IF outcome = "disconnect" THEN disconnect(r, c) ELSE r

\* send_message(client_id, message): the registry afterwards and the value
\* returned
send_message(r, c, outcome) ==
    IF c \notin DOMAIN r.ac THEN [reg |-> r, ret |-> FALSE]
    ELSE [reg |-> write_done(r, c, outcome), ret |-> (outcome = "ok")]

\* ------------------------------------------------------------- history
\* seen[c][t] describes the current period in which client c is both
\* connected and subscribed to task t: `since` is the number of envelopes
\* that had been enqueued for t when the period began (NoTime outside a
\* period), and of the envelopes enqueued for t after that, `last` is the
\* sequence number of the one c received last, `errs` the number of
\* task_error envelopes c received and `late` whether c received a
\* progress envelope after a task_error.
NotSeen == [since |-> NoTime, last |-> 0, errs |-> 0, late |-> FALSE]

Both(r, c, t) == c \in DOMAIN r.ac /\ t \in DOMAIN r.ts /\ c \in r.ts[t]

Track(r, r2) ==
    [c \in ClientIds |-> [t \in TaskIds |->
        IF ~Both(r2, c, t) THEN NotSeen
        ELSE IF Both(r, c, t) THEN seen[c][t]
        ELSE [NotSeen EXCEPT !.since = Len(sent[t])]]]

Deliver(c, msg) ==
    IF msg.task = NoTask THEN seen
    ELSE LET old == seen[c][msg.task] IN
         IF old.since = NoTime \/ msg.seq <= old.since THEN seen
         ELSE [seen EXCEPT ![c][msg.task] =
                [since |-> old.since,
                 last |-> msg.seq,
                 errs |-> old.errs + (IF msg.type = "task_error" THEN 1 ELSE 0),
                 late |-> old.late \/ (msg.type = "search_progress" /\ old.errs > 0)]]

\* connect calls minus disconnect calls; a deficit beyond MaxSkew is no
\* longer counted
Counted(n) == IF n < -MaxSkew THEN -MaxSkew ELSE n

\* the number of subscription sets client c is a member of
Memberships(r, c) ==
    Cardinality({k \in DOMAIN r.ts : c \in r.ts[k]})
        + Cardinality({k \in DOMAIN r.ss : c \in r.ss[k]})

NoOp == [op |-> "none", client |-> NoTask, outcome |-> "none", ret |-> FALSE,
         subs |-> 0]
\* disconnect(c) was called on registry r
DisconnectOp(r, c) ==
    [op |-> "disconnect", client |-> c, outcome |-> "none", ret |-> FALSE,
     subs |-> Memberships(r, c)]
\* send_message(c, ...) was called on registry r and the write ended in
\* `outcome` ("skipped" when c was not in active_connections)
SendOp(r, c, outcome) ==
    [op |-> "send_message", client |-> c,
     outcome |-> (IF c \in DOMAIN r.ac THEN outcome ELSE "skipped"),
     ret |-> send_message(r, c, outcome).ret,
     subs |-> Memberships(r, c)]

\* no frame was handled; otherwise: the socket and client the frame came
\* from, the frame, the frames the handler wrote back, and whether the
\* endpoint left its read loop
NoFrame == [socket |-> 0, client |-> NoTask, shape |-> "none", type |-> "none",
            id |-> NoTask, replies |-> <<>>, closed |-> FALSE]

NoCall == [op |-> "none", task |-> NoTask, age |-> 0, ret |-> FALSE, count |-> 0]
\* start_realtime_search returned id t
StartCall(t) == [NoCall EXCEPT !.op = "start_realtime_search", !.task = t]
\* cancel_task(t) returned ret
CancelCall(t, ret) == [NoCall EXCEPT !.op = "cancel_task", !.task = t, !.ret = ret]
\* cleanup_completed_tasks(max_age) returned n
CleanupCall(max_age, n) ==
    [NoCall EXCEPT !.op = "cleanup_completed_tasks", !.age = max_age, !.count = n]

\* ------------------------------------------------------------- broadcaster
Envelope(type, t, pct, n) == [type |-> type, task |-> t, pct |-> pct, seq |-> n]

\* what each broadcast_* convenience method puts on the queue
broadcast_task_start == <<"task_start", 0>>
broadcast_progress_update(pct) == <<"search_progress", pct>>
broadcast_search_results == <<"search_results", NoPct>>
broadcast_task_complete == <<"task_complete", 100>>
broadcast_error == <<"task_error", NoPct>>

\* the calls `items` made in a row for task t: Queue.put appends each
Enqueue(t, items) ==
    LET n == Len(sent[t]) IN
    /\ broadcast_queue' = broadcast_queue \o
           [i \in 1..Len(items) |-> Envelope(items[i][1], t, items[i][2], n + i)]
    /\ sent' = [sent EXCEPT ![t] = @ \o
           [i \in 1..Len(items) |-> [type |-> items[i][1], pct |-> items[i][2]]]]

Room(k) == Len(broadcast_queue) + k <= MaxQueue

TaskRouted == {"search_progress", "search_results", "task_progress"}

\* every message handed to broadcast_message, whatever its type
Recipients_all_connections(r, msg) == DOMAIN r.ac

\* _process_broadcast_message: the recipients the message is sent to,
\* list(...) of the index entry or of the live connections at call time
Recipients(r, msg) ==
    IF msg.type \in TaskRouted
    THEN IF msg.task # NoTask /\ msg.task \in DOMAIN r.ts THEN r.ts[msg.task] ELSE {}
    ELSE DOMAIN r.ac

NoMsg == Envelope("none", NoTask, NoPct, 0)
Idle == [pc |-> "none", msg |-> NoMsg, todo |-> {}]
Waiting == [pc |-> "wait", msg |-> NoMsg, todo |-> {}]
Exited == [pc |-> "exited", msg |-> NoMsg, todo |-> {}]
FreeConsumers == {k \in Consumers : consumer[k].pc \in {"none", "exited"}}

\* `while self.is_running` at the head of the loop
LoopHead == IF is_running THEN Waiting ELSE Exited

\* start(): the consumers afterwards (is_running is set by the caller)
start(cons, running) ==
    IF running THEN cons
    ELSE [cons EXCEPT ![Min(FreeConsumers)] = Waiting]

\* ------------------------------------------------------------- task table
Terminal == {"completed", "failed", "cancelled"}

\* a row inserted as already running
NewRow_in_progress ==
    [status |-> "in_progress", progress |-> 0,
     completed_at |-> NoTime, failed_at |-> NoTime, cancelled_at |-> NoTime]

NewRow == [status |-> "started", progress |-> 0,
           completed_at |-> NoTime, failed_at |-> NoTime, cancelled_at |-> NoTime]

get_task_status(t) ==
    IF t \in DOMAIN active_tasks THEN active_tasks[t].status ELSE "none"

NoWorker == [pc |-> "none", task |-> NoTask]
FreeWorkers == {w \in Workers : worker[w].pc = "none"}
Running(w) == worker[w].pc \notin {"none", "done_ok", "done_failed", "done_missing"}

\* asyncio.sleep inside a stage wrapper: the progress value broadcast when
\* the sleep is over and where the coroutine suspends next
AfterSleepTable ==
    [parse_sleep    |-> <<20, "parse_call">>,
     search_sleep1  |-> <<50, "search_sleep2">>,
     search_sleep2  |-> <<60, "search_sleep3">>,
     search_sleep3  |-> <<70, "search_call">>,
     analyze_sleep1 |-> <<85, "analyze_sleep2">>,
     analyze_sleep2 |-> <<90, "analyze_call">>]

\* the value broadcast by the `except` of the stage wrapper before it re-raises
StageFailedPct == [parse_call |-> 20, search_call |-> 70, analyze_call |-> 90]

\* the same write with the status assignment left out
mark_completed_keeps_status(row) ==
    [row EXCEPT !.progress = 100, !.completed_at = now]

\* the status written on full success (line 119-121)
mark_completed(row) ==
    [row EXCEPT !.status = "completed", !.progress = 100, !.completed_at = now]

\* the same write with the status assignment left out
mark_failed_keeps_status(row) == [row EXCEPT !.failed_at = now]

\* the status written by the except branch (line 135-138)
mark_failed(row) == [row EXCEPT !.status = "failed", !.failed_at = now]

\* the same write with the status assignment left out
mark_cancelled_keeps_status(row) == [row EXCEPT !.cancelled_at = now]

\* cancel_task on a known id (line 284-285)
mark_cancelled(row) == [row EXCEPT !.status = "cancelled", !.cancelled_at = now]

\* cleanup_completed_tasks: the timestamp the sweep looks at
terminal_time(row) ==
    IF row.completed_at # NoTime THEN row.completed_at
    ELSE IF row.failed_at # NoTime THEN row.failed_at
    ELSE row.cancelled_at

\* the sweep with `>=` in place of `>`
tasks_to_remove_at_least(tasks, max_age) ==
    {t \in DOMAIN tasks :
        /\ tasks[t].status \in Terminal
        /\ terminal_time(tasks[t]) # NoTime
        /\ now - terminal_time(tasks[t]) >= max_age}

tasks_to_remove(tasks, max_age) ==
    {t \in DOMAIN tasks :
        /\ tasks[t].status \in Terminal
        /\ terminal_time(tasks[t]) # NoTime
        /\ now - terminal_time(tasks[t]) > max_age}

\* ------------------------------------------------------------- initial state
Init ==
    /\ active_connections = EmptyDict
    /\ connection_info = EmptyDict
    /\ task_subscriptions = EmptyDict
    /\ session_subscriptions = EmptyDict
    /\ sock = [s \in Sockets |-> [pc |-> "idle", cid |-> NoTask, peer |-> "up"]]
    /\ is_running = FALSE
    /\ broadcast_queue = <<>>
    /\ consumer = [k \in Consumers |-> Idle]
    /\ active_tasks = EmptyDict
    /\ worker = [w \in Workers |-> NoWorker]
    /\ now = 0
    /\ issued = {}
    /\ sent = [t \in TaskIds |-> <<>>]
    /\ seen = [c \in ClientIds |-> [t \in TaskIds |-> NotSeen]]
    /\ cancel_requested = [t \in TaskIds |-> 0]
    /\ skew = 0
    /\ net = 0
    /\ last_op = NoOp
    /\ last_call = NoCall
    /\ last_frame = NoFrame

regHist == <<active_connections, connection_info, task_subscriptions,
             session_subscriptions, seen, skew, net>>
taskVars == <<active_tasks, worker, now, issued, cancel_requested>>
queueVars == <<is_running, broadcast_queue, consumer, sent>>

\* a step that calls the registry: the registry becomes r2, `op` is the
\* call that returned, dskew/dnet what the step adds to skew and net
Calls(r2, op, dskew, dnet) ==
    /\ SetReg(r2)
    /\ seen' = Track(Reg, r2)
    /\ last_op' = op
    /\ last_call' = NoCall
    /\ last_frame' = NoFrame
    /\ skew' = Counted(skew + dskew)
    /\ net' = net + dnet

IsLive(c) == c \in DOMAIN active_connections
One(b) == IF b THEN 1 ELSE 0

\* ------------------------------------------------------------- /ws endpoint
\* websocket_endpoint up to the await of the CONNECT acknowledgement:
\* accept() succeeded and connect() stored the socket and the record
SocketConnect(s, c) ==
    /\ sock[s].pc = "idle"
    /\ ~connect(Reg, c, s, TRUE).raised
    /\ Calls(connect(Reg, c, s, TRUE).reg, NoOp, 1, One(~IsLive(c)))
    /\ sock' = [sock EXCEPT ![s] = [pc |-> "ack", cid |-> c, peer |-> "up"]]
    /\ UNCHANGED <<taskVars, queueVars>>

\* accept() raised: connect re-raises, the endpoint logs and its `finally`
\* calls disconnect(client_id)
SocketReject(s, c) ==
    /\ sock[s].pc = "idle"
    /\ connect(Reg, c, s, FALSE).raised
    /\ Calls(disconnect(connect(Reg, c, s, FALSE).reg, c),
             [DisconnectOp(Reg, c) EXCEPT !.outcome = "accept_raised"],
             0, -One(IsLive(c)))
    /\ UNCHANGED <<sock, taskVars, queueVars>>

\* the CONNECT acknowledgement has been written or has failed; connect()
\* returns either way and the endpoint starts the broadcaster if needed
ConnectAck(s, outcome) ==
    /\ sock[s].pc = "ack"
    /\ outcome \in WriteOutcomes(s)
    /\ is_running \/ FreeConsumers # {}
    /\ LET c == sock[s].cid
           gone == (outcome = "disconnect")
       IN  Calls(write_done(Reg, c, outcome),
                 [op |-> "send_message", client |-> c, outcome |-> outcome,
                  ret |-> (outcome = "ok"), subs |-> Memberships(Reg, c)],
                 -One(gone), -One(gone /\ IsLive(c)))
    /\ consumer' = start(consumer, is_running)
    /\ is_running' = TRUE
    /\ sock' = [sock EXCEPT ![s].pc = "reading"]
    /\ UNCHANGED <<taskVars, broadcast_queue, sent>>

\* the client goes away (closes, or the network drops)
PeerGone(s) ==
    /\ sock[s].pc \in {"ack", "reading"}
    /\ sock[s].peer = "up"
    /\ sock' = [sock EXCEPT ![s].peer = "gone"]
    /\ last_op' = NoOp
    /\ last_call' = NoCall
    /\ last_frame' = NoFrame
    /\ UNCHANGED <<regHist, taskVars, queueVars>>

\* ------------------------------------------------------------- handler
Subscribing == {"search_start", "task_start"}
Unsubscribing == {"task_complete", "task_error"}
LoggedOnly == {"search_progress", "search_results", "search_error",
               "task_progress", "pong"}
FrameTypes == Subscribing \cup Unsubscribing \cup LoggedOnly
                 \cup {"conversation_message", "ping"}

\* the members of WebSocketMessageType with no entry in the handlers table
Unhandled == {"connect", "disconnect", "search_complete",
              "conversation_response", "system_notification", "error"}
\* WebSocketMessageType
Kinds == FrameTypes \cup Unhandled
\* the handlers that evaluate message_data.get("data", {}).get(...)
ReadsData == Subscribing \cup Unsubscribing \cup {"conversation_message"}

\* An inbound text frame.  shape:
\*   "not_json"    json.loads raises JSONDecodeError
\*   "not_object"  JSON, but not an object (message_data.get raises)
\*   "no_type"     an object whose "type" is absent or empty
\*   "bad_type"    an object whose "type" is no WebSocketMessageType value
\*   "bad_data"    an object of kind `type` whose "data" is not an object
\*   "ok"          an object of kind `type` whose "data" is absent or an
\*                 object; `id` is data.task_id (data.session_id for a
\*                 conversation_message), NoTask when it carries none
Frame(shape, type, id) == [shape |-> shape, type |-> type, id |-> id]
Garbage == {Frame(sh, "none", NoTask) :
                sh \in {"not_json", "not_object", "no_type", "bad_type"}}
BadData == {Frame("bad_data", ty, NoTask) : ty \in Kinds}
WellFormed(types, ids) == {Frame("ok", ty, id) : ty \in types, id \in ids}
Frames == Garbage \cup BadData \cup WellFormed(Kinds, {NoTask} \cup TaskIds)
\* one frame for each call the handlers make on the registry
RegistryFrames ==
    WellFormed({"search_start", "task_complete", "conversation_message"}, TaskIds)

\* the same dispatch with every task handler subscribing
handle_message_subscribes_all(r, c, type, id) ==
    IF id = NoTask THEN r
    ELSE IF type = "conversation_message" THEN subscribe_to_session(r, c, id)
    ELSE subscribe_to_task(r, c, id)

\* MessageHandler.handle_message for a well-formed frame of a handled
\* type: the registry afterwards.  `id` is data.task_id or data.session_id
\* (NoTask when the frame carries none).
handle_message(r, c, type, id) ==
    IF id = NoTask THEN r
    ELSE IF type \in Subscribing THEN subscribe_to_task(r, c, id)
    ELSE IF type \in Unsubscribing THEN unsubscribe_from_task(r, c, id)
    ELSE IF type = "conversation_message" THEN subscribe_to_session(r, c, id)
    ELSE r

\* MessageHandler.handle_message on any frame: the registry afterwards.  A
\* frame that is rejected, or whose handler raises on its "data", reaches
\* no registry call.
handle_frame(r, c, f) ==
    IF f.shape = "ok" /\ f.type \in FrameTypes
    THEN handle_message(r, c, f.type, f.id)
    ELSE r

\* the handler of the frame's kind raises AttributeError on its "data"
data_raises(f) == f.shape = "bad_data" /\ f.type \in ReadsData

\* the same replies without the `else` branch for a kind with no handler
replies_silent_without_handler(f) ==
    IF f \in Garbage THEN <<"error">>
    ELSE IF f.type \in Unhandled THEN <<>>
    ELSE IF data_raises(f) THEN <<"error">>
    ELSE IF f.type = "ping" THEN <<"pong">>
    ELSE IF f.type = "search_start" /\ f.shape = "ok"
         THEN IF f.id = NoTask THEN <<"error">> ELSE <<"search_start">>
    ELSE <<>>

\* MessageHandler.handle_message on any frame: the kinds of the frames it
\* writes on the websocket, every write succeeding
replies(f) ==
    IF f \in Garbage THEN <<"error">>
    ELSE IF f.type \in Unhandled THEN <<"error">>
    ELSE IF data_raises(f) THEN <<"error">>
    ELSE IF f.type = "ping" THEN <<"pong">>
    ELSE IF f.type = "search_start" /\ f.shape = "ok"
         THEN IF f.id = NoTask THEN <<"error">> ELSE <<"search_start">>
    ELSE <<>>

\* receive_text() returned frame f and handle_message ran on it.  The
\* handler writes with websocket.send_text, not through the registry: a
\* failed write is caught, the error frame sent in its place fails as well
\* and is dropped by _send_error_message, and the registry is not told.
Receive(s, f) ==
    /\ sock[s].pc = "reading"
    /\ SetReg(handle_frame(Reg, sock[s].cid, f))
    /\ seen' = Track(Reg, handle_frame(Reg, sock[s].cid, f))
    /\ \E outcome \in WriteOutcomes(s) :
          last_frame' = [socket |-> s, client |-> sock[s].cid,
                         shape |-> f.shape, type |-> f.type, id |-> f.id,
                         replies |-> (IF outcome = "ok" THEN replies(f)
                                      ELSE <<>>),
                         closed |-> FALSE]
    /\ last_op' = NoOp
    /\ last_call' = NoCall
    /\ UNCHANGED <<skew, net, sock, taskVars, queueVars>>

\* receive_text() raised something other than WebSocketDisconnect (the
\* frame was a binary one): the loop's `except Exception` builds a
\* WebSocketMessage without its required timestamp, the ValidationError
\* leaves the loop, and `finally` calls disconnect(client_id)
ReceiveRaises(s) ==
    /\ sock[s].pc = "reading"
    /\ LET c == sock[s].cid IN
       /\ SetReg(disconnect(Reg, c))
       /\ seen' = Track(Reg, disconnect(Reg, c))
       /\ last_op' = DisconnectOp(Reg, c)
       /\ skew' = Counted(skew - 1)
       /\ net' = net - One(IsLive(c))
       /\ last_frame' = [NoFrame EXCEPT !.socket = s, !.client = c,
                                        !.shape = "binary", !.closed = TRUE]
    /\ last_call' = NoCall
    /\ sock' = [sock EXCEPT ![s] = [pc |-> "idle", cid |-> NoTask, peer |-> "up"]]
    /\ UNCHANGED <<taskVars, queueVars>>

\* receive_text() raised WebSocketDisconnect: the loop breaks and
\* `finally` calls disconnect(client_id)
SocketClose(s) ==
    /\ sock[s].pc = "reading"
    /\ sock[s].peer = "gone"
    /\ LET c == sock[s].cid IN
       Calls(disconnect(Reg, c), DisconnectOp(Reg, c), -1, -One(IsLive(c)))
    /\ sock' = [sock EXCEPT ![s] = [pc |-> "idle", cid |-> NoTask, peer |-> "up"]]
    /\ UNCHANGED <<taskVars, queueVars>>

\* ------------------------------------------------------------- consumer
\* stop()
Stop ==
    /\ is_running
    /\ is_running' = FALSE
    /\ last_op' = NoOp
    /\ last_call' = NoCall
    /\ last_frame' = NoFrame
    /\ UNCHANGED <<regHist, sock, taskVars, broadcast_queue, consumer, sent>>

\* wait_for(queue.get()) returned a message; _process_broadcast_message
\* picks the route and takes the list of recipients
ConsumerGet(k) ==
    /\ consumer[k].pc = "wait"
    /\ broadcast_queue # <<>>
    /\ LET msg == Head(broadcast_queue)
           todo == Recipients(Reg, msg)
       IN  consumer' = [consumer EXCEPT ![k] =
               IF todo = {} THEN LoopHead
               ELSE [pc |-> "send", msg |-> msg, todo |-> todo]]
    /\ broadcast_queue' = Tail(broadcast_queue)
    /\ last_op' = NoOp
    /\ last_call' = NoCall
    /\ last_frame' = NoFrame
    /\ UNCHANGED <<regHist, sock, taskVars, is_running, sent>>

\* the same loop with a failed write ending the worker
after_send_failure_ends_loop(cons, c, outcome) ==
    IF outcome # "ok" THEN Exited
    ELSE IF cons.todo = {c} THEN LoopHead
    ELSE [cons EXCEPT !.todo = @ \ {c}]

\* the consumer after send_message(c) has returned: send_message catches
\* what the write raises, so the `for` loop goes on to the next recipient
\* and, after the last one, the worker is back at the head of its loop
after_send(cons, c, outcome) ==
    IF cons.todo = {c} THEN LoopHead
    ELSE [cons EXCEPT !.todo = @ \ {c}]

\* one round of the `for client_id in list(...)` loop: send_message(c)
ConsumerSend(k, c, outcome) ==
    /\ consumer[k].pc = "send"
    /\ c \in consumer[k].todo
    /\ IF IsLive(c)
       THEN outcome \in WriteOutcomes(active_connections[c])
       ELSE outcome = "ok"
    /\ LET res == send_message(Reg, c, outcome)
           gone == IsLive(c) /\ outcome = "disconnect"
       IN  /\ SetReg(res.reg)
           /\ seen' = IF res.ret THEN Deliver(c, consumer[k].msg)
                      ELSE Track(Reg, res.reg)
           /\ last_op' = SendOp(Reg, c, outcome)
           /\ last_call' = NoCall
           /\ last_frame' = NoFrame
           /\ skew' = Counted(skew - One(gone))
           /\ net' = net - One(gone)
    /\ consumer' = [consumer EXCEPT ![k] = after_send(@, c, outcome)]
    /\ UNCHANGED <<sock, taskVars, is_running, broadcast_queue, sent>>

\* wait_for timed out on the empty queue and `while self.is_running` fails
ConsumerExit(k) ==
    /\ consumer[k].pc = "wait"
    /\ broadcast_queue = <<>>
    /\ ~is_running
    /\ consumer' = [consumer EXCEPT ![k] = Exited]
    /\ last_op' = NoOp
    /\ last_call' = NoCall
    /\ last_frame' = NoFrame
    /\ UNCHANGED <<regHist, sock, taskVars, is_running, broadcast_queue, sent>>

\* ------------------------------------------------------------- orchestrator
\* broadcast_system_status: one SYSTEM_NOTIFICATION is enqueued
SystemStatus ==
    /\ Room(1)
    /\ Cardinality({i \in 1..Len(broadcast_queue) :
           broadcast_queue[i].type = "system_notification"}) < MaxNotices
    /\ broadcast_queue' = Append(broadcast_queue,
           Envelope("system_notification", NoTask, NoPct, 0))
    /\ last_op' = NoOp
    /\ last_call' = NoCall
    /\ last_frame' = NoFrame
    /\ UNCHANGED <<regHist, sock, taskVars, is_running, consumer, sent>>

\* start_realtime_search(request, client_ip, task_id=given).  The POST
\* /ws/search endpoint passes no task_id (NoTask) and uuid4 supplies one
\* never used before; a task_id that is given is used as it is.
StartTask(given) ==
    /\ given = NoTask => TaskIds \ issued # {}
    /\ FreeWorkers # {}
    /\ Room(1)
    /\ LET t == IF given = NoTask THEN Min(TaskIds \ issued) ELSE given IN
       /\ issued' = issued \cup {t}
       /\ active_tasks' = Put(active_tasks, t, NewRow)
       /\ Enqueue(t, <<broadcast_task_start>>)
       /\ worker' = [worker EXCEPT ![Min(FreeWorkers)] =
                        [pc |-> "created", task |-> t]]
       /\ last_call' = StartCall(t)
    /\ last_op' = NoOp
    /\ last_frame' = NoFrame
    /\ UNCHANGED <<regHist, sock, now, cancel_requested, is_running, consumer>>

\* _execute_realtime_search from its first line to the first sleep
RunBegins(w) ==
    /\ worker[w].pc = "created"
    /\ Room(1)
    /\ LET t == worker[w].task IN
       IF t \notin DOMAIN active_tasks
       THEN /\ Enqueue(t, <<broadcast_error>>)
            /\ worker' = [worker EXCEPT ![w].pc = "done_missing"]
            /\ UNCHANGED active_tasks
       ELSE /\ active_tasks' = [active_tasks EXCEPT ![t].status = "in_progress"]
            /\ Enqueue(t, <<broadcast_progress_update(10)>>)
            /\ worker' = [worker EXCEPT ![w].pc = "parse_sleep"]
    /\ last_op' = NoOp
    /\ last_call' = NoCall
    /\ last_frame' = NoFrame
    /\ UNCHANGED <<regHist, sock, now, issued, cancel_requested, is_running,
                   consumer>>

\* an asyncio.sleep of a stage wrapper is over
AfterSleep(w) ==
    /\ worker[w].pc \in DOMAIN AfterSleepTable
    /\ Room(1)
    /\ LET e == AfterSleepTable[worker[w].pc] IN
       /\ Enqueue(worker[w].task, <<broadcast_progress_update(e[1])>>)
       /\ worker' = [worker EXCEPT ![w].pc = e[2]]
    /\ last_op' = NoOp
    /\ last_call' = NoCall
    /\ last_frame' = NoFrame
    /\ UNCHANGED <<regHist, sock, active_tasks, now, issued, cancel_requested,
                   is_running, consumer>>

\* the except branch of _execute_realtime_search, after the calls `items`
handle_failure(w, items) ==
    LET t == worker[w].task IN
    /\ Enqueue(t, items \o <<broadcast_error>>)
    /\ active_tasks' = IF t \in DOMAIN active_tasks
                       THEN [active_tasks EXCEPT ![t] = mark_failed(@)]
                       ELSE active_tasks
    /\ worker' = [worker EXCEPT ![w].pc = "done_failed"]

\* the stage call raised
StageRaises(w) ==
    /\ worker[w].pc \in DOMAIN StageFailedPct
    /\ Room(2)
    /\ handle_failure(w, <<broadcast_progress_update(StageFailedPct[worker[w].pc])>>)
    /\ last_op' = NoOp
    /\ last_call' = NoCall
    /\ last_frame' = NoFrame
    /\ UNCHANGED <<regHist, sock, now, issued, cancel_requested, is_running,
                   consumer>>

\* line 100-121: the last broadcasts and the write of the final status,
\* which raises KeyError when the row is gone
finish(w) ==
    LET t == worker[w].task
        items == <<broadcast_progress_update(95), broadcast_progress_update(100),
                   broadcast_search_results, broadcast_task_complete>>
    IN  IF t \in DOMAIN active_tasks
        THEN /\ Enqueue(t, items)
             /\ active_tasks' = [active_tasks EXCEPT ![t] = mark_completed(@)]
             /\ worker' = [worker EXCEPT ![w].pc = "done_ok"]
        ELSE handle_failure(w, items)

\* the stage call returned
StageReturns(w) ==
    /\ worker[w].pc \in DOMAIN StageFailedPct
    /\ Room(5)
    /\ LET t == worker[w].task IN
       CASE worker[w].pc = "parse_call" ->
              /\ Enqueue(t, <<broadcast_progress_update(30)>>)
              /\ worker' = [worker EXCEPT ![w].pc = "search_sleep1"]
              /\ UNCHANGED active_tasks
         [] worker[w].pc = "search_call" ->
              /\ Enqueue(t, <<broadcast_progress_update(75),
                              broadcast_progress_update(80)>>)
              /\ worker' = [worker EXCEPT ![w].pc = "analyze_sleep1"]
              /\ UNCHANGED active_tasks
         [] worker[w].pc = "analyze_call" -> finish(w)
    /\ last_op' = NoOp
    /\ last_call' = NoCall
    /\ last_frame' = NoFrame
    /\ UNCHANGED <<regHist, sock, now, issued, cancel_requested, is_running,
                   consumer>>

\* cancel_task(task_id), also by a caller that holds the id before the
\* worker created by start_realtime_search has taken its first step
CancelTask(t) ==
    /\ IF t \in DOMAIN active_tasks
       THEN /\ cancel_requested[t] < MaxCancels
            /\ Room(1)
            /\ active_tasks' = [active_tasks EXCEPT ![t] = mark_cancelled(@)]
            /\ Enqueue(t, <<broadcast_error>>)
            /\ cancel_requested' = [cancel_requested EXCEPT ![t] = @ + 1]
       ELSE UNCHANGED <<active_tasks, broadcast_queue, sent, cancel_requested>>
    /\ last_op' = NoOp
    /\ last_call' = CancelCall(t, t \in DOMAIN active_tasks)
    /\ last_frame' = NoFrame
    /\ UNCHANGED <<regHist, sock, worker, now, issued, is_running, consumer>>

\* cleanup_completed_tasks(max_age_hours)
Cleanup(max_age) ==
    /\ active_tasks' = [t \in (DOMAIN active_tasks) \ tasks_to_remove(active_tasks, max_age)
                          |-> active_tasks[t]]
    /\ last_op' = NoOp
    /\ last_call' = CleanupCall(max_age, Cardinality(tasks_to_remove(active_tasks, max_age)))
    /\ last_frame' = NoFrame
    /\ UNCHANGED <<regHist, sock, worker, now, issued, cancel_requested, queueVars>>

\* time passes
Tick ==
    /\ now < MaxTime
    /\ now' = now + 1
    /\ last_op' = NoOp
    /\ last_call' = NoCall
    /\ last_frame' = NoFrame
    /\ UNCHANGED <<regHist, sock, active_tasks, worker, issued,
                   cancel_requested, queueVars>>

\* ------------------------------------------------------------- producers
\* the broadcast_* convenience methods and the envelope type each builds
BroadcastMethods ==
    [broadcast_progress_update     |-> "search_progress",
     broadcast_search_results      |-> "search_results",
     broadcast_error               |-> "task_error",
     broadcast_task_start          |-> "task_start",
     broadcast_task_complete       |-> "task_complete",
     broadcast_system_notification |-> "system_notification"]

\* the payload model raising ValidationError on every argument list
payload_rejects_all(arg) == FALSE

\* SearchProgressMessage(**data), TaskStatusMessage(**data), ...: the
\* payload model accepts the arguments (arg is the task_id, or the title
\* of a notification; NoTask stands for a value of the wrong type)
payload_accepted(arg) == arg # NoTask

\* what a broadcast_* method puts on the queue when called with arg
built(method, arg) ==
    IF ~payload_accepted(arg) THEN <<>>
    ELSE IF method = "broadcast_system_notification"
         THEN <<Envelope("system_notification", NoTask, NoPct, 0)>>
         ELSE <<Envelope(BroadcastMethods[method], arg, NoPct, 0)>>

\* a producer calls a broadcast_* method: the payload is built inside the
\* method's try, put on the queue, and any exception is logged
Produce(method, arg) ==
    /\ Len(broadcast_queue) < MaxProduced
    /\ broadcast_queue' = broadcast_queue \o built(method, arg)
    /\ last_call' = [NoCall EXCEPT !.op = method, !.task = arg]
    /\ last_frame' = NoFrame
    /\ last_op' = NoOp
    /\ UNCHANGED <<regHist, sock, taskVars, is_running, consumer, sent>>

\* a caller puts a conversation_message envelope for session x on
\* broadcast_queue (no broadcast_* method builds one; the envelope's task
\* field holds data.session_id)
PutConversation(x) ==
    /\ Len(broadcast_queue) < MaxProduced
    /\ broadcast_queue' = Append(broadcast_queue,
           Envelope("conversation_message", x, NoPct, 0))
    /\ last_call' = NoCall
    /\ last_frame' = NoFrame
    /\ last_op' = NoOp
    /\ UNCHANGED <<regHist, sock, taskVars, is_running, consumer, sent>>

\* ------------------------------------------------------------- specifications
Outcomes == {"ok", "disconnect", "error"}

\* The whole subsystem.
Next ==
    \/ \E s \in Sockets, c \in ClientIds : SocketConnect(s, c)
    \/ \E s \in Sockets, c \in ClientIds : SocketReject(s, c)
    \/ \E s \in Sockets, o \in Outcomes : ConnectAck(s, o)
    \/ \E s \in Sockets : PeerGone(s)
    \/ \E s \in Sockets, f \in Frames : Receive(s, f)
    \/ \E s \in Sockets : ReceiveRaises(s)
    \/ \E s \in Sockets : SocketClose(s)
    \/ Stop
    \/ \E k \in Consumers : ConsumerGet(k)
    \/ \E k \in Consumers, c \in ClientIds, o \in Outcomes : ConsumerSend(k, c, o)
    \/ \E k \in Consumers : ConsumerExit(k)
    \/ SystemStatus
    \/ \E g \in {NoTask} \cup TaskIds : StartTask(g)
    \/ \E w \in Workers : RunBegins(w)
    \/ \E w \in Workers : AfterSleep(w)
    \/ \E w \in Workers : StageReturns(w)
    \/ \E w \in Workers : StageRaises(w)
    \/ \E t \in TaskIds : CancelTask(t)
    \/ \E a \in 0..MaxAge : Cleanup(a)
    \/ Tick
    \/ \E m \in DOMAIN BroadcastMethods, arg \in {NoTask} \cup FrameIds : Produce(m, arg)
    \/ \E x \in TaskIds : PutConversation(x)

Spec == Init /\ [][Next]_vars

\* The orchestrator alone: the task table, the pipeline workers, cancel,
\* cleanup and the clock, with the envelopes staying on the queue.
NextPipeline ==
    \/ StartTask(NoTask)
    \/ \E w \in Workers : RunBegins(w)
    \/ \E w \in Workers : AfterSleep(w)
    \/ \E w \in Workers : StageReturns(w)
    \/ \E w \in Workers : StageRaises(w)
    \/ \E t \in TaskIds : CancelTask(t)
    \/ \E a \in 0..MaxAge : Cleanup(a)
    \/ Tick

SpecPipeline == Init /\ [][NextPipeline]_vars

\* The registry under client churn: sockets that connect, are rejected,
\* lose their peer and close, every inbound frame type, and the consumer
\* delivering system notifications to the live connections.
NextRegistry ==
    \/ \E s \in Sockets, c \in ClientIds : SocketConnect(s, c)
    \/ \E s \in Sockets, c \in ClientIds : SocketReject(s, c)
    \/ \E s \in Sockets, o \in Outcomes : ConnectAck(s, o)
    \/ \E s \in Sockets : PeerGone(s)
    \/ \E s \in Sockets, f \in RegistryFrames : Receive(s, f)
    \/ \E s \in Sockets : SocketClose(s)
    \/ \E k \in Consumers : ConsumerGet(k)
    \/ \E k \in Consumers, c \in ClientIds, o \in Outcomes : ConsumerSend(k, c, o)
    \/ SystemStatus

SpecRegistry == Init /\ [][NextRegistry]_vars

\* Delivery of the envelopes of a task whose first stage fails, to
\* clients that connect, subscribe and stay: the pipeline up to the stage
\* call that raises, cancel, and the consumer started by the first
\* connection.
NextFailure ==
    \/ \E s \in Sockets, c \in ClientIds : SocketConnect(s, c)
    \/ \E s \in Sockets : ConnectAck(s, "ok")
    \/ \E s \in Sockets, id \in TaskIds : Receive(s, Frame("ok", "search_start", id))
    \/ \E k \in Consumers : ConsumerGet(k)
    \/ \E k \in Consumers, c \in ClientIds : ConsumerSend(k, c, "ok")
    \/ StartTask(NoTask)
    \/ \E w \in Workers : RunBegins(w)
    \/ \E w \in Workers : AfterSleep(w)
    \/ \E w \in Workers : StageRaises(w)
    \/ \E t \in TaskIds : CancelTask(t)

SpecFailure == Init /\ [][NextFailure]_vars

\* stop() and start() of the dispatcher while a task is in its first stage
\* (the stage call has not returned yet) and clients connect and subscribe.
NextRestart ==
    \/ \E s \in Sockets, c \in ClientIds : SocketConnect(s, c)
    \/ \E s \in Sockets : ConnectAck(s, "ok")
    \/ \E s \in Sockets, id \in TaskIds : Receive(s, Frame("ok", "search_start", id))
    \/ Stop
    \/ \E k \in Consumers : ConsumerGet(k)
    \/ \E k \in Consumers, c \in ClientIds : ConsumerSend(k, c, "ok")
    \/ \E k \in Consumers : ConsumerExit(k)
    \/ StartTask(NoTask)
    \/ \E w \in Workers : RunBegins(w)
    \/ \E w \in Workers : AfterSleep(w)

SpecRestart == Init /\ [][NextRestart]_vars

\* ------------------------------------------------------------- task lifecycle
\* C1: once get_task_status(T) has reported completed, failed or cancelled,
\* no later get_task_status(T) of the task (while its row is in the table)
\* reports a different status.
C1_StatusMonotonic ==
    [][\A t \in TaskIds :
          (get_task_status(t) \in Terminal /\ t \in DOMAIN active_tasks')
              => get_task_status(t)' = get_task_status(t)]_vars

\* C5: when cancel_task(T) has returned True while a stage of T's pipeline
\* is in flight, the step in which that stage's call ends starts no further
\* stage, enqueues no task_complete for T and does not set T's status to
\* completed.
C5_NoStageAfterCancel ==
    [][\A w \in Workers :
          LET t == worker[w].task IN
          (worker[w].pc \in DOMAIN StageFailedPct /\ cancel_requested[t] > 0)
              => /\ worker'[w].pc \in {worker[w].pc, "done_failed"}
                 /\ get_task_status(t)' # "completed"
                 /\ \A i \in (Len(sent[t]) + 1)..Len(sent'[t]) :
                        sent'[t][i].type # "task_complete"]_vars

\* C6 as stated: after a run in which every stage succeeded and no cancel
\* was requested, the progress percentages enqueued for the task are
\* non-decreasing and end at 100, exactly one task_complete is enqueued,
\* after the last progress envelope, and get_task_status reports completed
\* from then on.
C6_CompletedFromThenOn ==
    \A w \in Workers :
        LET t == worker[w].task IN
        (worker[w].pc = "done_ok" /\ cancel_requested[t] = 0)
            => LET prog == {i \in 1..Len(sent[t]) : sent[t][i].type = "search_progress"}
                   done == {i \in 1..Len(sent[t]) : sent[t][i].type = "task_complete"}
               IN  /\ \A i, j \in prog : i < j => sent[t][i].pct <= sent[t][j].pct
                   /\ prog # {}
                   /\ \A i \in prog : (\A j \in prog : j <= i) => sent[t][i].pct = 100
                   /\ Cardinality(done) = 1
                   /\ \A i \in prog, j \in done : i < j
                   /\ get_task_status(t) = "completed"

\* C6 amended: the same, with get_task_status reporting completed for as
\* long as the row is in the table (cleanup_completed_tasks removes it once
\* it is older than max_age_hours, and get_task_status then reports nothing).
C6_CompletedUntilEvicted ==
    \A w \in Workers :
        LET t == worker[w].task IN
        (worker[w].pc = "done_ok" /\ cancel_requested[t] = 0)
            => LET prog == {i \in 1..Len(sent[t]) : sent[t][i].type = "search_progress"}
                   done == {i \in 1..Len(sent[t]) : sent[t][i].type = "task_complete"}
               IN  /\ \A i, j \in prog : i < j => sent[t][i].pct <= sent[t][j].pct
                   /\ prog # {}
                   /\ \A i \in prog : (\A j \in prog : j <= i) => sent[t][i].pct = 100
                   /\ Cardinality(done) = 1
                   /\ \A i \in prog, j \in done : i < j
                   /\ t \in DOMAIN active_tasks => get_task_status(t) = "completed"

\* a run whose stages all succeeded, never cancelled, its row still there
C6_Witness ==
    \E w \in Workers :
        /\ worker[w].pc = "done_ok"
        /\ cancel_requested[worker[w].task] = 0
        /\ get_task_status(worker[w].task) = "completed"

\* ------------------------------------------------------------- registry claims
\* C7: in every reachable state no client_id whose connection record is
\* deactivated is a member of a task or session subscription set.
C7_NoInactiveSubscriber ==
    \A c \in ClientIds :
        (c \in DOMAIN connection_info /\ ~connection_info[c].is_active)
            => /\ \A k \in DOMAIN task_subscriptions : c \notin task_subscriptions[k]
               /\ \A k \in DOMAIN session_subscriptions : c \notin session_subscriptions[k]

\* C8: immediately after disconnect(c) has returned (called by the endpoint
\* or from inside send_message), c is in no task and no session subscription
\* set, c is not in the live connection set, its record, if any, is marked
\* inactive, and no index keeps a key whose set is empty.
C8_DisconnectPostcondition ==
    (last_op.op = "disconnect"
        \/ (last_op.op = "send_message" /\ last_op.outcome = "disconnect"))
    => LET c == last_op.client IN
       /\ c \notin DOMAIN active_connections
       /\ c \in DOMAIN connection_info => ~connection_info[c].is_active
       /\ \A k \in DOMAIN task_subscriptions :
              c \notin task_subscriptions[k] /\ task_subscriptions[k] # {}
       /\ \A k \in DOMAIN session_subscriptions :
              c \notin session_subscriptions[k] /\ session_subscriptions[k] # {}

\* disconnect(c) has just returned for a live client that was a member of
\* a task set and of a session set
C8_Witness ==
    /\ last_op.op = "disconnect"
    /\ last_op.subs = NumTasks + 1
    /\ last_op.client \in DOMAIN connection_info

\* C9 as stated: get_active_connections_count() equals the number of
\* connect calls minus the number of disconnect calls processed so far.
C9_CountIsConnectsMinusDisconnects == get_active_connections_count = skew

\* C9 amended: get_active_connections_count() equals the number of connect
\* calls that added a client_id not already in the live set minus the
\* number of disconnect calls that removed one.
C9_CountIsEffectiveCalls == get_active_connections_count = net

\* a connect on a live client_id or a disconnect on an absent one has been
\* processed and a client is connected
C9_Witness == net # skew /\ get_active_connections_count > 0

\* C10: when the socket write of send_message fails, in whichever way,
\* send_message returns False and has disconnected the client (not live,
\* record inactive, in no subscription set); it returns True only when the
\* write succeeded.
C10_FailedWriteDisconnects ==
    last_op.op = "send_message"
    => LET c == last_op.client IN
       /\ last_op.ret => last_op.outcome = "ok"
       /\ last_op.outcome \in {"disconnect", "error"}
          => /\ ~last_op.ret
             /\ c \notin DOMAIN active_connections
             /\ c \in DOMAIN connection_info => ~connection_info[c].is_active
             /\ \A k \in DOMAIN task_subscriptions : c \notin task_subscriptions[k]
             /\ \A k \in DOMAIN session_subscriptions : c \notin session_subscriptions[k]

\* ------------------------------------------------------------- delivery claims
\* C2: whenever the consumer's send_message delivers an envelope carrying
\* task id T to client c, c is subscribed to T; a connected client that is
\* not subscribed to T receives none of T's envelopes.
C2_OnlySubscribersReceive ==
    [][\A k \in Consumers :
          (/\ consumer[k].pc = "send"
           /\ consumer'[k] # consumer[k]
           /\ consumer[k].msg.task # NoTask
           /\ last_op'.op = "send_message"
           /\ last_op'.ret)
              => Both(Reg, last_op'.client, consumer[k].msg.task)]_vars

\* C3: a client that stays connected and subscribed to T receives T's
\* envelopes in the order in which they were enqueued.
C3_PerTaskFifo ==
    [][\A c \in ClientIds, t \in TaskIds :
          (/\ seen[c][t].since # NoTime
           /\ seen'[c][t].since = seen[c][t].since
           /\ seen'[c][t].last # seen[c][t].last)
              => seen'[c][t].last > seen[c][t].last]_vars

\* C4: once a stage of T's pipeline has failed, a client connected and
\* subscribed to T has received at most one task_error envelope of T and no
\* progress envelope of T after a task_error, also when cancel_task was
\* called on T.
C4_OneTerminalError ==
    \A w \in Workers, c \in ClientIds :
        (worker[w].pc = "done_failed" /\ seen[c][worker[w].task].since # NoTime)
            => /\ seen[c][worker[w].task].errs <= 1
               /\ ~seen[c][worker[w].task].late

\* ------------------------------------------------------------- task broadcast
\* broadcast_to_task_subscribers while clients subscribe to the task and to
\* another id, unsubscribe, lose their peer and close: the first step of
\* the pipeline supplies the task-routed envelope.
NextBroadcast ==
    \/ \E s \in Sockets, c \in ClientIds : SocketConnect(s, c)
    \/ \E s \in Sockets : ConnectAck(s, "ok")
    \/ \E s \in Sockets : PeerGone(s)
    \/ \E s \in Sockets, f \in WellFormed({"search_start", "task_complete"}, FrameIds) :
          Receive(s, f)
    \/ \E s \in Sockets : SocketClose(s)
    \/ \E k \in Consumers : ConsumerGet(k)
    \/ \E k \in Consumers, c \in ClientIds, o \in Outcomes : ConsumerSend(k, c, o)
    \/ StartTask(NoTask)
    \/ \E w \in Workers : RunBegins(w)

SpecBroadcast == Init /\ [][NextBroadcast]_vars

\* C11: a task-routed envelope of task t is attempted on exactly the clients
\* that are in t's subscriber set when the broadcast is called; each round
\* of the loop takes one of them off the list, writes to it only if it is
\* still connected, and the loop goes on to the rest whatever the outcome.
C11_ExactlySubscribers ==
    [][\A k \in Consumers :
          /\ (consumer[k].pc = "wait" /\ consumer'[k].pc = "send"
                 /\ consumer'[k].msg.type \in TaskRouted)
              => /\ consumer'[k].msg.task \in DOMAIN task_subscriptions
                 /\ consumer'[k].todo = task_subscriptions[consumer'[k].msg.task]
          /\ (consumer[k].pc = "send" /\ consumer'[k] # consumer[k]
                 /\ consumer[k].msg.type \in TaskRouted)
              => /\ last_op'.op = "send_message"
                 /\ last_op'.client \in consumer[k].todo
                 /\ last_op'.ret => last_op'.client \in DOMAIN active_connections
                 /\ IF consumer[k].todo = {last_op'.client}
                    THEN consumer'[k].pc # "send"
                    ELSE /\ consumer'[k].pc = "send"
                         /\ consumer'[k].msg = consumer[k].msg
                         /\ consumer'[k].todo = consumer[k].todo \ {last_op'.client}]_vars

\* a progress envelope is on its way to the subscribers of its task: one
\* of them is no longer connected and was skipped, another is still to be
\* written to, and the other id has a subscriber as well
C11_Witness ==
    \E k \in Consumers :
        /\ consumer[k].pc = "send"
        /\ consumer[k].msg.type = "search_progress"
        /\ consumer[k].todo # {}
        /\ last_op.op = "send_message"
        /\ last_op.outcome = "skipped"
        /\ ForeignId \in DOMAIN task_subscriptions

\* C12: in every registry state and for every id, disconnect(c) applied to
\* the result of disconnect(c) changes nothing, unsubscribe_from_task(c, t)
\* applied to the result of unsubscribe_from_task(c, t) changes nothing, a
\* disconnect that has just returned can be repeated without effect, and
\* disconnect of an id that never connected changes nothing.
C12_Idempotent ==
    /\ \A c \in ClientIds :
          /\ disconnect(disconnect(Reg, c), c) = disconnect(Reg, c)
          /\ \A t \in FrameIds :
                unsubscribe_from_task(unsubscribe_from_task(Reg, c, t), c, t)
                    = unsubscribe_from_task(Reg, c, t)
          /\ c \notin DOMAIN connection_info => disconnect(Reg, c) = Reg
    /\ last_op.op = "disconnect" => disconnect(Reg, last_op.client) = Reg

\* disconnect(c) has just returned for a client that was subscribed, while
\* another client is connected and subscribed
C12_Witness ==
    /\ last_op.op = "disconnect"
    /\ last_op.subs > 0
    /\ task_subscriptions # EmptyDict
    /\ active_connections # EmptyDict

\* ------------------------------------------------------------- control calls
\* C13: cleanup_completed_tasks(max_age) removes exactly the rows whose
\* status is completed, failed or cancelled and whose terminal timestamp
\* (completed_at, else failed_at, else cancelled_at) lies more than max_age
\* back, leaves every other row as it was, returns the number of rows
\* removed, and leaves no row that a second call at the same time would remove.
C13_CleanupEvictsOld ==
    [][last_call'.op = "cleanup_completed_tasks" =>
          LET Stamp(r) == IF r.completed_at # NoTime THEN r.completed_at
                          ELSE IF r.failed_at # NoTime THEN r.failed_at
                          ELSE r.cancelled_at
              Old(tasks, at) ==
                  {t \in DOMAIN tasks :
                      /\ tasks[t].status \in {"completed", "failed", "cancelled"}
                      /\ at - Stamp(tasks[t]) > last_call'.age}
          IN  /\ DOMAIN active_tasks' = (DOMAIN active_tasks) \ Old(active_tasks, now)
              /\ \A t \in DOMAIN active_tasks' : active_tasks'[t] = active_tasks[t]
              /\ last_call'.count = Cardinality(Old(active_tasks, now))
              /\ Old(active_tasks', now') = {}]_vars

\* a sweep has just evicted a row
C13_Witness ==
    /\ last_call.op = "cleanup_completed_tasks"
    /\ last_call.count > 0
    /\ active_tasks = EmptyDict

\* SpecFailure with the scheduling of the event loop: a consumer whose
\* queue.get() or send_text() can complete is resumed.
SpecFailureFair ==
    /\ Init
    /\ [][NextFailure]_vars
    /\ \A k \in Consumers :
          /\ WF_vars(ConsumerGet(k))
          /\ WF_vars(\E c \in ClientIds : ConsumerSend(k, c, "ok"))

\* C14: cancel_task on an id that is not in the task table returns False,
\* leaves the table unchanged and enqueues nothing; on a task whose run has
\* not begun it returns True, sets the status to cancelled and enqueues a
\* task_error for it, and every client connected and subscribed to the task
\* at that moment receives a task_error of the task unless it stops being
\* connected and subscribed.
C14_CancelTask ==
    /\ [][last_call'.op = "cancel_task" =>
             LET t == last_call'.task IN
             IF t \notin DOMAIN active_tasks
             THEN /\ ~last_call'.ret
                  /\ active_tasks' = active_tasks
                  /\ broadcast_queue' = broadcast_queue
             ELSE active_tasks[t].status = "started"
                  => /\ last_call'.ret
                     /\ active_tasks'[t].status = "cancelled"
                     /\ Len(broadcast_queue') = Len(broadcast_queue) + 1
                     /\ broadcast_queue'[Len(broadcast_queue')].type = "task_error"
                     /\ broadcast_queue'[Len(broadcast_queue')].task = t]_vars
    /\ \A c \in ClientIds, t \in TaskIds :
          (/\ last_call.op = "cancel_task" /\ last_call.task = t /\ last_call.ret
           /\ \E w \in Workers : worker[w].task = t /\ worker[w].pc = "created"
           /\ seen[c][t].since # NoTime)
             ~> (seen[c][t].errs > 0 \/ seen[c][t].since = NoTime)

\* cancel_task has just returned True for a task whose run has not begun,
\* and a client is connected and subscribed to that task
C14_Witness ==
    /\ last_call.op = "cancel_task"
    /\ last_call.ret
    /\ \E w \in Workers : worker[w].task = last_call.task /\ worker[w].pc = "created"
    /\ \E c \in ClientIds : seen[c][last_call.task].since # NoTime

C16_AutoSubscribed ==
    [][(last_call'.op = "start_realtime_search" /\ active_connections # EmptyDict)
          => /\ last_call'.task \in DOMAIN task_subscriptions'
             /\ \E c \in DOMAIN active_connections' :
                    c \in task_subscriptions'[last_call'.task]]_vars

\* ------------------------------------------------------------- producers
\* Callers of the broadcast_* methods with arguments of every kind.
NextProducer ==
    \E m \in DOMAIN BroadcastMethods, arg \in {NoTask} \cup FrameIds : Produce(m, arg)

SpecProducer == Init /\ [][NextProducer]_vars

\* C17 as stated: every call of a broadcast_* method returns having
\* appended exactly one envelope to the queue, touching no socket and no
\* registry entry, whatever its arguments.
C17_AlwaysOneEnvelope ==
    [][last_call'.op \in DOMAIN BroadcastMethods
          => /\ Len(broadcast_queue') = Len(broadcast_queue) + 1
             /\ \A i \in 1..Len(broadcast_queue) : broadcast_queue'[i] = broadcast_queue[i]
             /\ UNCHANGED <<regVars, sock>>]_vars

\* C17 amended: every call of a broadcast_* method returns, touching no
\* socket and no registry entry; it has appended exactly one envelope, of
\* the method's type, when the payload model accepts the arguments, and
\* has left the queue as it was when it does not.
C17_OneEnvelopeIfAccepted ==
    [][last_call'.op \in DOMAIN BroadcastMethods
          => /\ IF last_call'.task # NoTask
                THEN /\ Len(broadcast_queue') = Len(broadcast_queue) + 1
                     /\ broadcast_queue'[Len(broadcast_queue')].type
                            = BroadcastMethods[last_call'.op]
                ELSE Len(broadcast_queue') = Len(broadcast_queue)
             /\ \A i \in 1..Len(broadcast_queue) : broadcast_queue'[i] = broadcast_queue[i]
             /\ UNCHANGED <<regVars, sock>>]_vars

\* a broadcast_* call whose payload was rejected has just returned, with
\* envelopes of earlier calls on the queue
C17_Witness ==
    /\ last_call.op \in DOMAIN BroadcastMethods
    /\ last_call.task = NoTask
    /\ broadcast_queue # <<>>

\* ------------------------------------------------------------- inbound frames
\* Clients that connect, send frames of every shape and kind, and go away.
NextHandler ==
    \/ \E s \in Sockets, c \in ClientIds : SocketConnect(s, c)
    \/ \E s \in Sockets : ConnectAck(s, "ok")
    \/ \E s \in Sockets : PeerGone(s)
    \/ \E s \in Sockets, f \in Frames : Receive(s, f)
    \/ \E s \in Sockets : ReceiveRaises(s)
    \/ \E s \in Sockets : SocketClose(s)

SpecHandler == Init /\ [][NextHandler]_vars

\* C18 as stated: a frame that is not JSON, not a JSON object, without a
\* type, with a data that is not an object, or of an unknown type, coming
\* from a peer that is still there, is answered with exactly one error
\* frame on the same connection; the registry (live set, records, both
\* subscription indices) is unchanged and the endpoint keeps reading.
C18_MalformedGetsOneError ==
    [][last_frame'.shape \in {"not_json", "not_object", "no_type", "bad_type",
                              "bad_data"}
          /\ sock[last_frame'.socket].peer = "up"
       => /\ last_frame'.replies = <<"error">>
          /\ ~last_frame'.closed
          /\ regVars' = regVars
          /\ sock'[last_frame'.socket].pc = "reading"]_vars

\* C19 as stated: handling a well-formed frame of a task-scoped kind that
\* carries a task_id leaves the sender in that task's subscriber set.
C19_TaskScopedSubscribes ==
    [][(last_frame'.shape = "ok" /\ last_frame'.type \in (Subscribing \cup Unsubscribing \cup (LoggedOnly \ {"pong"})
                                   \cup {"search_complete"})
            /\ last_frame'.id # NoTask)
       => /\ last_frame'.id \in DOMAIN task_subscriptions'
          /\ last_frame'.client \in task_subscriptions'[last_frame'.id]]_vars

\* C19 amended: handling a well-formed task-scoped frame that carries a
\* task_id leaves the sender in the task's subscriber set when the kind is
\* search_start or task_start, leaves it outside the set when the kind is
\* task_complete or task_error, and leaves the task index as it was for
\* the other kinds.
C19_SubscribesOrUnsubscribes ==
    [][(last_frame'.shape = "ok" /\ last_frame'.type \in (Subscribing \cup Unsubscribing \cup (LoggedOnly \ {"pong"})
                                   \cup {"search_complete"})
            /\ last_frame'.id # NoTask)
       => LET t == last_frame'.id
              c == last_frame'.client
              member == t \in DOMAIN task_subscriptions'
                            /\ c \in task_subscriptions'[t]
          IN  /\ last_frame'.type \in {"search_start", "task_start"} => member
              /\ last_frame'.type \in {"task_complete", "task_error"} => ~member
              /\ last_frame'.type \notin {"search_start", "task_start",
                                          "task_complete", "task_error"}
                    => task_subscriptions' = task_subscriptions]_vars

\* a task_complete frame naming a task has just been handled while
\* another client is subscribed to that task
C19_Witness ==
    /\ last_frame.shape = "ok"
    /\ last_frame.type = "task_complete"
    /\ last_frame.id \in DOMAIN task_subscriptions
    /\ task_subscriptions[last_frame.id] # {}
    /\ last_frame.client \notin task_subscriptions[last_frame.id]

\* C20 as stated: a well-formed frame of a kind that is recognised but not
\* actionable (connect, disconnect, search_complete, conversation_response,
\* system_notification, error, and the progress, result and search_error
\* kinds) gets no reply and changes nothing in the registry.
C20_NotActionableLoggedOnly ==
    [][(last_frame'.shape = "ok" /\ last_frame'.type \in (Unhandled \cup (LoggedOnly \ {"pong"})))
       => /\ last_frame'.replies = <<>>
          /\ regVars' = regVars]_vars

\* C20 amended: a well-formed frame of a progress, result or search_error
\* kind gets no reply; a well-formed frame of a kind that has no handler (connect,
\* disconnect, search_complete, conversation_response, system_notification,
\* error) gets exactly one error frame while the peer is there; in both
\* cases the registry is unchanged and the endpoint keeps reading.
C20_LoggedOrRejected ==
    [][(last_frame'.shape = "ok" /\ last_frame'.type \in (Unhandled \cup (LoggedOnly \ {"pong"})))
       => /\ last_frame'.type \notin Unhandled => last_frame'.replies = <<>>
          /\ (last_frame'.type \in Unhandled
                 /\ sock[last_frame'.socket].peer = "up")
                => last_frame'.replies = <<"error">>
          /\ regVars' = regVars
          /\ ~last_frame'.closed
          /\ sock'[last_frame'.socket].pc = "reading"]_vars

\* a system_notification frame has just been answered with an error frame
\* while a client is subscribed to a task
C20_Witness ==
    /\ last_frame.shape = "ok"
    /\ last_frame.type = "system_notification"
    /\ last_frame.replies = <<"error">>
    /\ task_subscriptions # EmptyDict

\* C21: when websocket.accept() raises inside connect, connect re-raises
\* and has changed nothing: what the endpoint leaves behind is what its own
\* disconnect(client_id) makes of the registry as it was before the call;
\* the failed connect has added no live entry, created or altered no
\* record and touched no subscription set.
C21_FailedHandshakeChangesNothing ==
    [][last_op'.outcome = "accept_raised" =>
          LET c == last_op'.client
              r == disconnect(Reg, c)
          IN  /\ \A s \in Sockets : /\ connect(Reg, c, s, FALSE).raised
                                    /\ connect(Reg, c, s, FALSE).reg = Reg
              /\ active_connections' = r.ac
              /\ connection_info' = r.ci
              /\ task_subscriptions' = r.ts
              /\ session_subscriptions' = r.ss
              /\ (c \notin DOMAIN connection_info
                     => /\ c \notin DOMAIN connection_info'
                        /\ regVars' = regVars)]_vars

\* the handshake of an unknown client_id has just failed while another
\* client is connected and subscribed
C21_Witness ==
    /\ last_op.outcome = "accept_raised"
    /\ last_op.client \notin DOMAIN connection_info
    /\ active_connections # EmptyDict
    /\ task_subscriptions # EmptyDict

\* C22: at every moment at most one _broadcast_worker loop is alive
\* (waiting on the queue or routing an envelope), whatever start() and
\* stop() calls have been made.
C22_AtMostOneConsumer ==
    Cardinality({k \in Consumers : consumer[k].pc \in {"wait", "send"}}) <= 1

\* ------------------------------------------------------------- task ids given by the caller
\* start_realtime_search called with and without a task_id, the pipelines
\* it creates up to a first stage that fails, and cancel_task.
NextReuse ==
    \/ \E g \in {NoTask} \cup TaskIds : StartTask(g)
    \/ \E w \in Workers : RunBegins(w)
    \/ \E w \in Workers : AfterSleep(w)
    \/ \E w \in Workers : StageRaises(w)
    \/ \E t \in TaskIds : CancelTask(t)

SpecReuse == Init /\ [][NextReuse]_vars

\* C23: for every task id at most one pipeline is alive at a time, and a
\* step that changes the row of a task is a step of a pipeline of that
\* task, whatever start_realtime_search (with or without a task_id) and
\* cancel_task calls are made.
C23_SingleWriter ==
    /\ [](\A t \in TaskIds :
            Cardinality({w \in Workers : Running(w) /\ worker[w].task = t}) <= 1)
    /\ [][\A t \in (DOMAIN active_tasks) \cap (DOMAIN active_tasks') :
              active_tasks'[t] # active_tasks[t]
                 => \E w \in Workers : /\ worker[w].task = t
                                       /\ worker'[w] # worker[w]]_vars

\* ------------------------------------------------------------- stopping
\* Clients connect, producers enqueue while the broadcaster is running,
\* stop() is called, and the consumers go on from where they were.
NextStop ==
    \/ \E s \in Sockets, c \in ClientIds : SocketConnect(s, c)
    \/ \E s \in Sockets : ConnectAck(s, "ok")
    \/ \E m \in {x \in {"broadcast_progress_update", "broadcast_task_start"} :
                      is_running}, arg \in TaskIds : Produce(m, arg)
    \/ Stop
    \/ \E k \in Consumers : ConsumerGet(k)
    \/ \E k \in Consumers, c \in ClientIds : ConsumerSend(k, c, "ok")
    \/ \E k \in Consumers : ConsumerExit(k)

SpecStop == Init /\ [][NextStop]_vars

\* C24: a consumer loop that exits after stop() leaves nothing behind:
\* when nothing is enqueued after stop(), the queue is empty at the
\* moment the loop exits, so every envelope that was waiting when stop()
\* was called has been routed.
C24_ExitsAfterDraining ==
    [][\A k \in Consumers :
          (consumer[k].pc # "exited" /\ consumer'[k].pc = "exited")
             => broadcast_queue' = <<>>]_vars

\* ------------------------------------------------------------- failing writes
\* Clients connect, subscribe and go away without notice, a task is
\* started and enqueues its first envelopes, and the consumer routes them
\* to whoever is registered; the consumer is scheduled whenever it can
\* take a step.
NextSurvive ==
    \/ \E s \in Sockets, c \in ClientIds : SocketConnect(s, c)
    \/ \E s \in Sockets : ConnectAck(s, "ok")
    \/ \E s \in Sockets : PeerGone(s)
    \/ \E s \in Sockets, id \in TaskIds : Receive(s, Frame("ok", "search_start", id))
    \/ StartTask(NoTask)
    \/ \E w \in Workers : RunBegins(w)
    \/ \E w \in Workers : AfterSleep(w)
    \/ \E k \in Consumers : ConsumerGet(k)
    \/ \E k \in Consumers, c \in ClientIds, o \in Outcomes : ConsumerSend(k, c, o)

SpecSurvive ==
    /\ Init
    /\ [][NextSurvive]_vars
    /\ \A k \in Consumers :
          /\ WF_vars(ConsumerGet(k))
          /\ WF_vars(\E c \in ClientIds, o \in Outcomes : ConsumerSend(k, c, o))

\* C25: a failure while routing an envelope does not end the consumer
\* loop.  After a socket write of the consumer has failed, the consumer
\* goes on with the remaining recipients or is back waiting on the queue,
\* and the envelope is not put back; an envelope without recipients sends
\* the consumer straight back to waiting; and the envelopes that wait in
\* the queue after a failed write are eventually all dequeued.
C25_LoopSurvivesFailure ==
    /\ [][\A k \in Consumers :
            /\ (/\ consumer[k].pc = "send"
                /\ consumer'[k] # consumer[k]
                /\ last_op'.outcome \in {"disconnect", "error"})
                  => /\ consumer'[k].pc = (IF consumer[k].todo = {last_op'.client}
                                           THEN "wait" ELSE "send")
                     /\ consumer'[k].todo = consumer[k].todo \ {last_op'.client}
                     /\ broadcast_queue' = broadcast_queue
                     /\ is_running'
            /\ (/\ consumer[k].pc = "wait"
                /\ consumer'[k] # consumer[k])
                  => /\ consumer'[k].pc \in {"wait", "send"}
                     /\ broadcast_queue' = Tail(broadcast_queue)]_vars
    /\ (/\ last_op.op = "send_message"
        /\ last_op.outcome \in {"disconnect", "error"}
        /\ broadcast_queue # <<>>)
          ~> (broadcast_queue = <<>>)

\* a write of the consumer has just failed while another envelope waits
\* in the queue
C25_Witness ==
    /\ last_op.op = "send_message"
    /\ last_op.outcome \in {"disconnect", "error"}
    /\ \E k \in Consumers : consumer[k].pc \in {"wait", "send"}
    /\ broadcast_queue # <<>>

\* ------------------------------------------------------------- conversations
\* Clients connect, some join a session by sending a conversation_message
\* frame, and conversation envelopes of the session go through the queue.
NextConversation ==
    \/ \E s \in Sockets, c \in ClientIds : SocketConnect(s, c)
    \/ \E s \in Sockets : ConnectAck(s, "ok")
    \/ \E s \in Sockets, x \in TaskIds :
          Receive(s, Frame("ok", "conversation_message", x))
    \/ \E x \in TaskIds : PutConversation(x)
    \/ \E k \in Consumers : ConsumerGet(k)
    \/ \E k \in Consumers, c \in ClientIds : ConsumerSend(k, c, "ok")

SpecConversation == Init /\ [][NextConversation]_vars

\* C26: a conversation envelope of session S that the consumer took from
\* the queue is written only to clients that are in S's subscriber set.
C26_OnlySessionSubscribers ==
    [][\A k \in Consumers :
          (/\ consumer[k].pc = "send"
           /\ consumer[k].msg.type = "conversation_message"
           /\ consumer'[k] # consumer[k]
           /\ last_op'.op = "send_message"
           /\ last_op'.ret)
             => /\ consumer[k].msg.task \in DOMAIN session_subscriptions
                /\ last_op'.client \in session_subscriptions[consumer[k].msg.task]]_vars

\* C27: in every reachable state a client_id is a key of
\* active_connections exactly when it has a connection record with
\* is_active true; and a step that changes the live map or a record
\* changes both as one connect (socket stored, record set active) or one
\* disconnect (key removed, record set inactive) of a single client_id.
C27_LiveIffActiveRecord ==
    /\ [](\A c \in ClientIds :
            c \in DOMAIN active_connections
               <=> (c \in DOMAIN connection_info /\ connection_info[c].is_active))
    /\ [][(active_connections' # active_connections
              \/ connection_info' # connection_info)
          => \E c \in ClientIds :
                \/ /\ \E s \in Sockets :
                         active_connections' = Put(active_connections, c, s)
                   /\ connection_info' = Put(connection_info, c, [is_active |-> TRUE])
                \/ /\ active_connections' = Del(active_connections, c)
                   /\ connection_info' = mark_inactive(connection_info, c)]_vars

\* one client is live and subscribed while another has been disconnected
\* and keeps an inactive record
C27_Witness ==
    /\ \E c \in DOMAIN active_connections :
          \E t \in DOMAIN task_subscriptions : c \in task_subscriptions[t]
    /\ \E c \in DOMAIN connection_info : ~connection_info[c].is_active

\* C28: when the read loop of a socket ends, or its handshake fails,
\* under a client_id that another socket is registered with, that other
\* socket (open, its peer there) stays the one registered for the
\* client_id and the client_id stays in every subscriber set it was in.
C28_OtherSocketKeepsRegistration ==
    [][\A s2 \in Sockets :
          LET c == sock[s2].cid IN
          (/\ sock[s2].pc = "reading"
           /\ sock[s2].peer = "up"
           /\ sock'[s2] = sock[s2]
           /\ c \in DOMAIN active_connections
           /\ active_connections[c] = s2
           /\ last_op'.op = "disconnect"
           /\ last_op'.client = c)
             => /\ c \in DOMAIN active_connections'
                /\ active_connections'[c] = s2
                /\ \A t \in DOMAIN task_subscriptions :
                      c \in task_subscriptions[t]
                         => /\ t \in DOMAIN task_subscriptions'
                            /\ c \in task_subscriptions'[t]]_vars

\* ------------------------------------------------------------- pipeline, scheduled
\* The orchestrator with its pipelines scheduled whenever they can take a
\* step, every sleep ending and every stage call returning or raising.
SpecPipelineFair ==
    /\ Init
    /\ [][NextPipeline]_vars
    /\ \A w \in Workers :
          /\ WF_vars(RunBegins(w))
          /\ WF_vars(AfterSleep(w))
          /\ WF_vars(StageReturns(w) \/ StageRaises(w))

\* C29: every task that start_realtime_search has created eventually has
\* a terminal status (completed, failed or cancelled); as long as no
\* cancel_task call has succeeded for it, at most one terminal envelope
\* (task_complete or task_error) has been enqueued for it, and eventually
\* exactly one has been, unless a cancel is requested first.
C29_PipelineTerminates ==
    \A t \in TaskIds :
       LET terminals == Cardinality({i \in 1..Len(sent[t]) :
                           sent[t][i].type \in {"task_complete", "task_error"}})
       IN  /\ (t \in DOMAIN active_tasks) ~> (get_task_status(t) \in Terminal)
           /\ [](cancel_requested[t] = 0 => terminals <= 1)
           /\ (t \in issued) ~> (cancel_requested[t] > 0 \/ terminals = 1)

\* a pipeline has ended in the except branch without any cancel request
C29_Witness ==
    \E t \in TaskIds :
       /\ get_task_status(t) = "failed"
       /\ cancel_requested[t] = 0
       /\ \E w \in Workers : worker[w].task = t /\ worker[w].pc = "done_failed"

\* C30: once cleanup_completed_tasks has evicted the cancelled row of a
\* task whose pipeline is still running, no later step creates a row for
\* that task again, and a pipeline that ends for such a task has not
\* enqueued a task_complete envelope followed by a task_error envelope.
C30_EvictedRunOneTerminal ==
    [][\A w \in Workers :
          LET t == worker[w].task IN
          (Running(w) /\ cancel_requested[t] > 0 /\ t \notin DOMAIN active_tasks)
             => /\ t \notin DOMAIN active_tasks'
                /\ worker'[w].pc = "done_failed"
                      => \A i \in 1..Len(sent'[t]) :
                            sent'[t][i].type # "task_complete"]_vars

====
